---- MODULE Spec2Model ----
(***************************************************************************)
(* Model of the uptime aggregator: the Uptime Kuma client                  *)
(* (src/services/uptime_kuma.py), the Uptime Robot client                   *)
(* (src/services/uptime_robot.py) and the Flask facade (src/app.py).        *)
(*                                                                         *)
(* Python values are encoded as integers so that a field may hold a number *)
(* or one of the sentinels: None (Python None), ABSENT (the key is not in  *)
(* the dict) and NA (the string 'N/A').  Python booleans stored in raw     *)
(* records are 0/1, as in Python (False == 0, True == 1).  Formatted       *)
(* numbers (f"{x:.2f}", f"{x:.0f}") are kept as the integer number of      *)
(* hundredths / units the string denotes.                                  *)
(***************************************************************************)
EXTENDS Integers, Sequences, FiniteSets, TLC

None == -1
ABSENT == -2
NA == -3
DASH == -4

\* ---------------------------------------------------------------- bounds
MaxBeats == 3       \* longest heartbeat sequence drawn exhaustively
MaxLong == 22       \* longest patterned heartbeat sequence (exceeds LOG_LIMIT)
MaxStride == 3      \* patterned sequences: every k-th beat is UP, k <= MaxStride
NumOps == 2         \* get_monitors operations run on one UptimeKumaService object
MaxMonitors == 2    \* monitors in the backend's listing

\* ----------------------------------------------------- program constants
STATUS_DOWN == 0
STATUS_UP == 1
STATUS_PENDING == 2
STATUS_MAINTENANCE == 3
LOG_LIMIT == 20
KUMA_DEFAULT_INTERVAL == 60
ROBOT_DEFAULT_INTERVAL == 300
ROBOT_DEFAULT_STATUS == 0

VARIABLES
    backend,      \* which client formats the record: "uptime_kuma" | "uptime_robot"
    monitor,      \* the raw monitor record received from the backend
    view,         \* <<>> before formatting, <<projection>> after
    phase,        \* "fetched" | "formatted" | "refetched"
    prev_uptime,  \* uptime of the projection made before the last re-fetch
    _api,         \* UptimeKumaService._api: 0 (None) or the cached session
    conn,         \* conn[o]: the session operation o's _get_api created: "unused" |
                  \*   "connected" | "logged_in" | "disconnected" (disconnect() called)
    pc,           \* where each get_monitors operation stands
    api,          \* get_monitors' local `api`: 0 (None) or a session
    monitors,     \* get_monitors' local list: per projected monitor its id and
                  \*   whether its heartbeats were fetched or recorded as empty
    todo,         \* monitors of the listing not yet projected
    outcome,      \* "none" | "ok" | "ValueError" | "UptimeKumaException"
    kind,         \* the operation each caller runs: "get_monitors" | "add_monitor"
                  \*   | "edit_monitor"
    monitors_data,\* get_monitors' local: the ids of the backend's listing, in order
    beats_calls,  \* the api.get_monitor_beats calls made: monitor id, returned or raised
    edited_id,    \* edit_monitor's argument monitor_id
    kwargs,       \* edit_monitor's keyword arguments: supplied field -> value
    record,       \* <<>> or <<the record api.get_monitor returned to edit_monitor>>
    saved,        \* <<>> or <<the record api.edit_monitor was called with>>
    calls,        \* the library calls each operation made, in order, and whether
                  \*   each raised
    error_msg,    \* the keywords in the text of the error _get_api caught
    message,      \* which of _get_api's errors was raised, "none" if none
    handlers,     \* the locals of each of the concurrent add-monitors requests
    paused,       \* the last of pause_monitor and resume_monitor that succeeded
    config,       \* which settings are non-empty: api_key, url, username, password
    route,        \* the operation the request runs, "idle" before the request
    rpc,          \* where the request's handler stands
    args,         \* the operation's arguments
    posts,        \* the requests.post calls issued for the request: API methods
    raised,       \* per backend, the error its factory or client raised: "none" | ...
    reason,       \* the message of the UptimeRobotException raised by _make_request
    result,       \* what the operation returned to its caller
    psps,         \* Backend A's status pages: page id -> member monitor ids
    payload,      \* the payload of the last editPSP request: id and monitors
    attempts,     \* the backends get_all_monitors has queried, in order
    all_monitors, \* get_all_monitors' local dict
    data,         \* the listing the last successful _make_request returned
    response      \* how the last HTTP exchange went: outcome and remote error

fvars == <<backend, monitor, view, phase, prev_uptime>>
evars == <<edited_id, kwargs, record, saved>>
lvars == <<calls, error_msg, message>>
svars == <<_api, conn, pc, api, monitors, todo, outcome, kind, monitors_data, beats_calls,
          evars, lvars>>
avars == <<config, route, rpc, args, posts, raised, reason, result, psps, payload, attempts,
          all_monitors, data, response>>
pvars == <<handlers, paused>>
vars == <<fvars, svars, avars, pvars>>

\* ------------------------------------------------------- Python helpers
\* dict.get(key, default): the default applies only when the key is absent
Get(v, default) == IF v = ABSENT THEN default ELSE v

\* truth value of a Python object held in a raw record (None, 0/False are falsy)
Truthy(v) == v \notin {None, 0}

\* round-half-even of num/den, den > 0: what "%.Nf" does to an exact value
RoundHalfEven(num, den) ==
    LET q == num \div den
        r == num % den
    IN  IF 2 * r < den THEN q
        ELSE IF 2 * r > den THEN q + 1
        ELSE IF q % 2 = 0 THEN q ELSE q + 1

RECURSIVE SumSeq(_)
SumSeq(s) == IF s = <<>> THEN 0 ELSE Head(s) + SumSeq(Tail(s))

\* insert x behind every element whose time is >= x's: stable, descending
RECURSIVE InsertDesc(_, _)
InsertDesc(x, s) ==
    IF s = <<>> THEN <<x>>
    ELSE IF Get(Head(s).time, 0) >= Get(x.time, 0)
         THEN <<Head(s)>> \o InsertDesc(x, Tail(s))
         ELSE <<x>> \o s

\* sorted(heartbeats, key=lambda x: x.get('time', 0), reverse=True)
RECURSIVE SortedByTimeDesc(_)
SortedByTimeDesc(hs) ==
    IF hs = <<>> THEN <<>>
    ELSE InsertDesc(hs[Len(hs)], SortedByTimeDesc(SubSeq(hs, 1, Len(hs) - 1)))

\* ------------------------------------------- UptimeKumaService (pure part)
\* faulty variant: any truthy status (1, 2, 3) counts as a successful check
SuccessfulChecksTruthy(hs) ==
    SumSeq([i \in 1..Len(hs) |-> IF Truthy(hs[i].status) THEN 1 ELSE 0])

\* faulty variant: the count starts at the second heartbeat
SuccessfulChecksSkipFirst(hs) ==
    SumSeq([i \in 1..Len(hs) |-> IF i > 1 /\ hs[i].status = 1 THEN 1 ELSE 0])

\* beat.get('status') == 1 counted over the sequence
SuccessfulChecks(hs) ==
    SumSeq([i \in 1..Len(hs) |-> IF hs[i].status = 1 THEN 1 ELSE 0])

_calculate_uptime_from_heartbeats(hs) ==
    IF hs = <<>> THEN NA
    ELSE RoundHalfEven(SuccessfulChecks(hs) * 100 * 100, Len(hs))

\* faulty variant: a zero ping is kept (>= instead of >)
NonNegativePing(b) == b.ping # None /\ b.ping >= 0

\* [beat.get('ping', 0) for beat in heartbeats if ping is not None and ping > 0]
PositivePing(b) == b.ping # None /\ b.ping > 0

ping_values(hs) ==
    LET kept == SelectSeq(hs, PositivePing)
    IN  [i \in 1..Len(kept) |-> kept[i].ping]

avg_response_time(hs) ==
    IF hs # <<>> /\ ping_values(hs) # <<>>
    THEN RoundHalfEven(SumSeq(ping_values(hs)), Len(ping_values(hs)))
    ELSE NA

current_response_time(hs) ==
    IF hs # <<>> /\ ping_values(hs) # <<>>
    THEN RoundHalfEven(ping_values(hs)[Len(ping_values(hs))], 1)
    ELSE NA

\* faulty variant: the log is cut from the heartbeats sorted newest first
RecentLogSorted(hs) ==
    IF hs # <<>>
    THEN SubSeq(SortedByTimeDesc(hs), 1, IF Len(hs) < LOG_LIMIT THEN Len(hs) ELSE LOG_LIMIT)
    ELSE <<>>

\* heartbeats[:20] if heartbeats else []
RecentLog(hs) ==
    IF hs # <<>> THEN SubSeq(hs, 1, IF Len(hs) < LOG_LIMIT THEN Len(hs) ELSE LOG_LIMIT)
    ELSE <<>>

\* faulty variant: a monitor without evidence is assumed UP
StatusFieldVerdictAssumeUp(m) ==
    IF m.status # ABSENT /\ m.status # None
    THEN m.status = STATUS_UP
    ELSE TRUE

\* the verdict from the monitor's own status field, or DOWN when it has none
StatusFieldVerdict(m) ==
    IF m.status # ABSENT /\ m.status # None
    THEN m.status = STATUS_UP
    ELSE FALSE

\* faulty variant: the active flag is consulted only when there are no heartbeats
determine_status_heartbeats_first(m, hs) ==
    IF hs # <<>>
    THEN LET status == SortedByTimeDesc(hs)[1].status
         IN  IF status = 1 THEN TRUE
             ELSE IF status = 0 THEN FALSE
             ELSE IF status = 2 THEN FALSE
             ELSE StatusFieldVerdict(m)
    ELSE IF ~Truthy(Get(m.active, 1)) THEN FALSE
    ELSE StatusFieldVerdict(m)

_determine_status_from_heartbeats(m, hs) ==
    IF ~Truthy(Get(m.active, 1)) THEN FALSE
    ELSE IF hs # <<>>
         THEN LET most_recent == SortedByTimeDesc(hs)[1]
                  status == most_recent.status
              IN  IF status = 1 THEN TRUE
                  ELSE IF status = 0 THEN FALSE
                  ELSE IF status = 2 THEN FALSE
                  ELSE StatusFieldVerdict(m)
         ELSE StatusFieldVerdict(m)

_format_monitor(m) ==
    LET heartbeats == IF "_heartbeats" \in DOMAIN m THEN m._heartbeats ELSE <<>>
        uptime_24h == _calculate_uptime_from_heartbeats(heartbeats)
    IN  [ id                |-> m.id,
          status            |-> _determine_status_from_heartbeats(m, heartbeats),
          uptime            |-> uptime_24h,
          uptime_24h        |-> uptime_24h,
          uptime_7d         |-> uptime_24h,
          uptime_30d        |-> uptime_24h,
          response_time     |-> current_response_time(heartbeats),
          avg_response_time |-> avg_response_time(heartbeats),
          active            |-> Get(m.active, 1),
          interval          |-> Get(m.interval, KUMA_DEFAULT_INTERVAL),
          logs              |-> RecentLog(heartbeats) ]

\* ------------------------------------------ UptimeRobotService (pure part)
robot_format_monitor(m) ==
    [ id            |-> m.id,
      status        |-> Get(m.status, ROBOT_DEFAULT_STATUS),
      response_time |-> Get(m.average_response_time, NA),
      type          |-> Get(m.type, None),
      interval      |-> Get(m.interval, ROBOT_DEFAULT_INTERVAL) ]

\* ------------------------------------------------------ input records
Statuses == {None, STATUS_DOWN, STATUS_UP, STATUS_PENDING, STATUS_MAINTENANCE}
Times == {90, 100, 110}
Pings == {None, 0, 80, 120}

\* heartbeats of every status; an UP beat carries a ping, the others none
VerdictBeats ==
    {[status |-> s, ping |-> IF s = STATUS_UP THEN 80 ELSE None, time |-> t] :
        s \in Statuses, t \in {100, 110}}

\* heartbeats of every ping value; a check without a ping is a failed one
PingBeats ==
    {[status |-> IF p = None THEN STATUS_DOWN ELSE STATUS_UP, ping |-> p, time |-> t] :
        p \in Pings, t \in Times}

\* a long sequence: n beats, every k-th one UP, times ascending or descending
LongBeats(n, k, asc) ==
    [i \in 1..n |->
        [status |-> IF i % k = 0 THEN STATUS_UP ELSE STATUS_DOWN,
         ping   |-> IF i % k = 0 THEN 10 * i ELSE None,
         time   |-> IF asc THEN i ELSE n + 1 - i]]

KumaRecord(active, status, hs) ==
    [id |-> 1, active |-> active, status |-> status, interval |-> ABSENT,
     _heartbeats |-> hs]

\* the raw Uptime Kuma record m is one the backend may return
IsKumaMonitor(m) ==
    \/ \E a \in {ABSENT, 0, 1}, s \in {ABSENT, None, STATUS_DOWN, STATUS_UP},
          k \in 0..MaxBeats :
          \E hs \in [1..k -> VerdictBeats] : m = KumaRecord(a, s, hs)
    \/ \E k \in 1..MaxBeats :
          \E hs \in [1..k -> PingBeats] : m = KumaRecord(ABSENT, ABSENT, hs)
    \/ \E n \in (LOG_LIMIT - 2)..MaxLong, k \in 1..MaxStride, asc \in BOOLEAN :
          m = KumaRecord(1, ABSENT, LongBeats(n, k, asc))
    \* a record whose heartbeats were never fetched (falsy id, or add_monitor's reply)
    \/ \E a \in {ABSENT, None, 0, 1}, s \in {ABSENT, None, STATUS_DOWN, STATUS_UP} :
          m = [id |-> 0, active |-> a, status |-> s, interval |-> 30]

RobotMonitors ==
    [id : {1, 2}, status : {ABSENT, None, 0, 1, 2, 8, 9},
     average_response_time : {ABSENT, 250}, type : {ABSENT, 1},
     interval : {ABSENT, 60}]

\* the orders in which a re-fetch may return the same heartbeats
Reorderings == {"reverse", "rotate", "swap"}

Reorder(how, hs) ==
    LET n == Len(hs)
    IN  IF n < 2 THEN hs
        ELSE IF how = "reverse" THEN [i \in 1..n |-> hs[n + 1 - i]]
        ELSE IF how = "rotate" THEN Tail(hs) \o <<Head(hs)>>
        ELSE <<hs[2], hs[1]>> \o SubSeq(hs, 3, n)

\* ------------------------------------------------------ session machine
\* A session is named by the operation whose _get_api created it.
Ops == 1..NumOps

InitSession ==
    /\ _api = 0
    /\ conn = [o \in Ops |-> "unused"]
    /\ pc = [o \in Ops |-> "idle"]
    /\ api = [o \in Ops |-> 0]
    /\ monitors = [o \in Ops |-> <<>>]
    /\ todo = [o \in Ops |-> 0]
    /\ outcome = [o \in Ops |-> "none"]
    /\ kind = [o \in Ops |-> "get_monitors"]
    /\ monitors_data = [o \in Ops |-> <<>>]
    /\ beats_calls = [o \in Ops |-> <<>>]
    /\ edited_id = [o \in Ops |-> None]
    /\ kwargs = [o \in Ops |-> <<>>]
    /\ record = [o \in Ops |-> <<>>]
    /\ saved = [o \in Ops |-> <<>>]
    /\ calls = [o \in Ops |-> <<>>]
    /\ error_msg = [o \in Ops |-> {}]
    /\ message = [o \in Ops |-> "none"]

\* no request is being handled: nothing sent, raised or returned yet
NoArgs ==
    [name |-> "", url |-> "", monitor_type |-> "", id |-> None, monitors |-> <<>>,
     monitor_id |-> None, kwargs |-> <<>>]

\* the add-monitors requests that run at the same time
Handlers == {1, 2}

NoRequest ==
    /\ handlers = [h \in Handlers |->
                      [pc |-> "idle", page_id |-> None, monitor_ids |-> <<>>,
                       current_monitors |-> <<>>, updated_monitors |-> <<>>,
                       success |-> FALSE]]
    /\ paused = "never"
    /\ route = "idle"
    /\ rpc = "idle"
    /\ args = NoArgs
    /\ posts = <<>>
    /\ raised = [uptime_robot |-> "none", uptime_kuma |-> "none"]
    /\ reason = [text |-> "none", type |-> "", message |-> ""]
    /\ result = <<>>
    /\ payload = <<>>
    /\ attempts = <<>>
    /\ all_monitors = <<>>
    /\ data = <<>>
    /\ response = <<>>

\* every setting is present: both service objects can be constructed
Configured == [api_key |-> TRUE, url |-> TRUE, username |-> TRUE, password |-> TRUE]

\* operation o has made one more library call, which returned or raised
Called(o, call, raised_) ==
    calls' = [calls EXCEPT ![o] = Append(@, [call |-> call, raised |-> raised_])]

\* the keywords _get_api looks for, and the texts an error may have, each
\* given by the keywords str(e).lower() contains
Keywords == {"login", "auth", "connect", "connection"}
ErrorTexts == {t \in SUBSET Keywords : "connection" \in t => "connect" \in t}

\* _get_api's `except Exception as e`: which UptimeKumaException is raised
_get_api_error(text) ==
    IF "login" \in text \/ "auth" \in text THEN "Authentication failed"
    ELSE IF "connect" \in text \/ "connection" \in text THEN "Cannot connect"
    ELSE "Failed to initialize API"

\* the data call an operation makes first on the session _get_api returned
FirstCall(k) == IF k = "edit_monitor" THEN "get_monitor" ELSE k

\* get_monitors is entered: api = None, then the try block starts
Call(o) ==
    /\ pc[o] = "idle"
    /\ pc' = [pc EXCEPT ![o] = "get_api"]
    /\ kind' = [kind EXCEPT ![o] = "get_monitors"]
    /\ UNCHANGED <<_api, conn, api, monitors, todo, outcome, monitors_data, beats_calls,
                   evars, lvars, fvars, avars, pvars>>

\* _get_api: self._api is not None, the cached session is returned
GetApiCached(o) ==
    /\ pc[o] = "get_api"
    /\ _api # 0
    /\ api' = [api EXCEPT ![o] = _api]
    /\ pc' = [pc EXCEPT ![o] = FirstCall(kind[o])]
    /\ UNCHANGED <<_api, conn, monitors, todo, outcome, kind, monitors_data, beats_calls, evars, lvars, fvars, avars, pvars>>

\* _get_api: UptimeKumaApi(self.url) connects a new session
Connect(o) ==
    /\ pc[o] = "get_api"
    /\ _api = 0
    /\ conn' = [conn EXCEPT ![o] = "connected"]
    /\ pc' = [pc EXCEPT ![o] = "login"]
    /\ Called(o, "UptimeKumaApi", FALSE)
    /\ UNCHANGED <<_api, api, monitors, todo, outcome, kind, monitors_data, beats_calls,
                   evars, error_msg, message, fvars, avars, pvars>>

\* _get_api: the import raises ImportError; UptimeKumaException (library not
\* installed) is raised and the operation's `api` stays None
ImportFails(o) ==
    /\ pc[o] = "get_api"
    /\ _api = 0
    /\ message' = [message EXCEPT ![o] = "library not installed"]
    /\ outcome' = [outcome EXCEPT ![o] = "UptimeKumaException"]
    /\ pc' = [pc EXCEPT ![o] = "finally"]
    /\ UNCHANGED <<_api, conn, api, monitors, todo, kind, monitors_data, beats_calls,
                   evars, calls, error_msg, fvars, avars, pvars>>

\* _get_api: the constructor raises an error with the given text (the server
\* cannot be reached); the handler raises the UptimeKumaException the text
\* selects and the operation's `api` stays None
ConnectFails(o, text) ==
    /\ pc[o] = "get_api"
    /\ _api = 0
    /\ Called(o, "UptimeKumaApi", TRUE)
    /\ error_msg' = [error_msg EXCEPT ![o] = text]
    /\ message' = [message EXCEPT ![o] = _get_api_error(text)]
    /\ outcome' = [outcome EXCEPT ![o] = "UptimeKumaException"]
    /\ pc' = [pc EXCEPT ![o] = "finally"]
    /\ UNCHANGED <<_api, conn, api, monitors, todo, kind, monitors_data, beats_calls,
                   evars, fvars, avars, pvars>>

\* _get_api: api.login succeeds, the session is cached in self._api and returned
LoginOk(o) ==
    /\ pc[o] = "login"
    /\ conn' = [conn EXCEPT ![o] = "logged_in"]
    /\ _api' = o
    /\ api' = [api EXCEPT ![o] = o]
    /\ pc' = [pc EXCEPT ![o] = FirstCall(kind[o])]
    /\ Called(o, "login", FALSE)
    /\ UNCHANGED <<monitors, todo, outcome, kind, monitors_data, beats_calls, evars,
                   error_msg, message, fvars, avars, pvars>>

\* _get_api with a handler that returns the session whose login raised
LoginFailsUnnoticed(o, text) ==
    /\ pc[o] = "login"
    /\ Called(o, "login", TRUE)
    /\ error_msg' = [error_msg EXCEPT ![o] = text]
    /\ message' = [message EXCEPT ![o] = _get_api_error(text)]
    /\ api' = [api EXCEPT ![o] = o]
    /\ _api' = o
    /\ pc' = [pc EXCEPT ![o] = FirstCall(kind[o])]
    /\ UNCHANGED <<conn, outcome, monitors, todo, kind, monitors_data, beats_calls,
                   evars, fvars, avars, pvars>>

\* _get_api: api.login raises an error with the given text; the handler
\* raises the UptimeKumaException the text selects and the connected session,
\* held only by _get_api's local, is dropped as it is
LoginFails(o, text) ==
    /\ pc[o] = "login"
    /\ Called(o, "login", TRUE)
    /\ error_msg' = [error_msg EXCEPT ![o] = text]
    /\ message' = [message EXCEPT ![o] = _get_api_error(text)]
    /\ outcome' = [outcome EXCEPT ![o] = "UptimeKumaException"]
    /\ pc' = [pc EXCEPT ![o] = "finally"]
    /\ UNCHANGED <<_api, conn, api, monitors, todo, kind, monitors_data, beats_calls,
                   evars, fvars, avars, pvars>>

\* api.get_monitors() returns the listing of n monitors, with ids 1..n
GetMonitorsOk(o, n) ==
    /\ pc[o] = "get_monitors"
    /\ conn[api[o]] = "logged_in"
    /\ monitors_data' = [monitors_data EXCEPT ![o] = [i \in 1..n |-> i]]
    /\ todo' = [todo EXCEPT ![o] = n]
    /\ pc' = [pc EXCEPT ![o] = "beats"]
    /\ Called(o, "get_monitors", FALSE)
    /\ UNCHANGED <<_api, conn, api, monitors, outcome, kind, beats_calls, evars,
                   error_msg, message, fvars, avars, pvars>>

\* api.get_monitors() raises: wrapped into UptimeKumaException
GetMonitorsFails(o) ==
    /\ pc[o] = "get_monitors"
    /\ outcome' = [outcome EXCEPT ![o] = "UptimeKumaException"]
    /\ pc' = [pc EXCEPT ![o] = "finally"]
    /\ Called(o, "get_monitors", TRUE)
    /\ UNCHANGED <<_api, conn, api, monitors, todo, kind, monitors_data, beats_calls, evars,
                   error_msg, message, fvars, avars, pvars>>

\* the raw monitor the loop is at
Current(o) == monitors_data[o][Len(monitors_data[o]) - todo[o] + 1]

\* the loop with a handler that moves on to the next monitor without
\* projecting the one whose heartbeats could not be fetched
FetchBeatsSkipsFailed(o, fetched) ==
    /\ pc[o] = "beats"
    /\ todo[o] > 0
    /\ fetched => conn[api[o]] = "logged_in"
    /\ beats_calls' = [beats_calls EXCEPT
           ![o] = Append(@, [monitor_id |-> Current(o), returned |-> fetched])]
    /\ monitors' = [monitors EXCEPT
           ![o] = IF fetched THEN Append(@, [id |-> Current(o), heartbeats |-> TRUE])
                  ELSE @]
    /\ todo' = [todo EXCEPT ![o] = @ - 1]
    /\ Called(o, "get_monitor_beats", ~fetched)
    /\ UNCHANGED <<_api, conn, pc, api, outcome, kind, monitors_data, evars,
                   error_msg, message, fvars, avars, pvars>>

\* one turn of the loop: get_monitor_beats returns or raises (then the
\* heartbeats are recorded as empty), and the projection is appended
FetchBeats(o, fetched) ==
    /\ pc[o] = "beats"
    /\ todo[o] > 0
    /\ fetched => conn[api[o]] = "logged_in"
    /\ beats_calls' = [beats_calls EXCEPT
           ![o] = Append(@, [monitor_id |-> Current(o), returned |-> fetched])]
    /\ monitors' = [monitors EXCEPT
           ![o] = Append(@, [id |-> Current(o), heartbeats |-> fetched])]
    /\ todo' = [todo EXCEPT ![o] = @ - 1]
    /\ Called(o, "get_monitor_beats", ~fetched)
    /\ UNCHANGED <<_api, conn, pc, api, outcome, kind, monitors_data, evars,
                   error_msg, message, fvars, avars, pvars>>

\* one turn of the loop in which _format_monitor raises on malformed data:
\* the outer handler wraps the error into UptimeKumaException
FormatRaises(o) ==
    /\ pc[o] = "beats"
    /\ todo[o] > 0
    /\ outcome' = [outcome EXCEPT ![o] = "UptimeKumaException"]
    /\ pc' = [pc EXCEPT ![o] = "finally"]
    /\ UNCHANGED <<_api, conn, api, monitors, todo, kind, monitors_data, beats_calls, evars, lvars, fvars, avars, pvars>>

\* the loop is over: return monitors
ReturnMonitors(o) ==
    /\ pc[o] = "beats"
    /\ todo[o] = 0
    /\ outcome' = [outcome EXCEPT ![o] = "ok"]
    /\ pc' = [pc EXCEPT ![o] = "finally"]
    /\ UNCHANGED <<_api, conn, api, monitors, todo, kind, monitors_data, beats_calls, evars, lvars, fvars, avars, pvars>>

\* str.lower on the monitor types drawn
Lower(t) == IF t = "HTTPS" THEN "https" ELSE t

\* add_monitor's argument checks
add_monitor_args_ok(name, url, monitor_type) ==
    /\ name # ""
    /\ ~(Lower(monitor_type) \in {"http", "https"} /\ url = "")

\* add_monitor is entered: the arguments are checked, then api = None and
\* the try block starts; a failed check raises ValueError at once
CallAddMonitor(o, name, url, monitor_type) ==
    /\ pc[o] = "idle"
    /\ kind' = [kind EXCEPT ![o] = "add_monitor"]
    /\ IF add_monitor_args_ok(name, url, monitor_type)
       THEN /\ pc' = [pc EXCEPT ![o] = "get_api"]
            /\ UNCHANGED outcome
       ELSE /\ pc' = [pc EXCEPT ![o] = "done"]
            /\ outcome' = [outcome EXCEPT ![o] = "ValueError"]
    /\ UNCHANGED <<_api, conn, api, monitors, todo, monitors_data, beats_calls,
                   evars, lvars, fvars, avars, pvars>>

\* api.add_monitor returns and the created monitor is projected
AddMonitorOk(o) ==
    /\ pc[o] = "add_monitor"
    /\ conn[api[o]] = "logged_in"
    /\ outcome' = [outcome EXCEPT ![o] = "ok"]
    /\ pc' = [pc EXCEPT ![o] = "finally"]
    /\ Called(o, "add_monitor", FALSE)
    /\ UNCHANGED <<_api, conn, api, monitors, todo, kind, monitors_data, beats_calls,
                   evars,
                   error_msg, message, fvars, avars, pvars>>

\* api.add_monitor raises: wrapped into UptimeKumaException
AddMonitorFails(o) ==
    /\ pc[o] = "add_monitor"
    /\ outcome' = [outcome EXCEPT ![o] = "UptimeKumaException"]
    /\ pc' = [pc EXCEPT ![o] = "finally"]
    /\ Called(o, "add_monitor", TRUE)
    /\ UNCHANGED <<_api, conn, api, monitors, todo, kind, monitors_data, beats_calls,
                   evars,
                   error_msg, message, fvars, avars, pvars>>

\* the records api.get_monitor may return for an id
StoredMonitors(id) ==
    {[id |-> id, active |-> a, status |-> ABSENT, interval |-> i] :
        a \in {0, 1}, i \in {ABSENT, KUMA_DEFAULT_INTERVAL}}

\* the records api.get_monitor may return, whatever the id
AnyStoredMonitor == UNION {StoredMonitors(id) : id \in {0, -5, 7}}

\* the keyword arguments edit_monitor is called with
KwargKeys == {"active", "interval"}
KwargValues == {None, 0, 1}
Kwargs == UNION {[keys -> KwargValues] : keys \in SUBSET KwargKeys}

\* the loop without the test `if value is not None`
overlay_all(m, kw) ==
    [key \in DOMAIN m \cup DOMAIN kw |-> IF key \in DOMAIN kw THEN kw[key] ELSE m[key]]

\* for key, value in kwargs.items(): if value is not None: monitor[key] = value
overlay(m, kw) ==
    [key \in DOMAIN m \cup DOMAIN kw |->
        IF key \in DOMAIN kw /\ kw[key] # None THEN kw[key]
        ELSE IF key \in DOMAIN m THEN m[key]
        ELSE ABSENT]

\* edit_monitor is entered: `if not monitor_id` raises ValueError at once,
\* else api = None and the try block starts
CallEditMonitor(o, id, kw) ==
    /\ pc[o] = "idle"
    /\ kind' = [kind EXCEPT ![o] = "edit_monitor"]
    /\ edited_id' = [edited_id EXCEPT ![o] = id]
    /\ kwargs' = [kwargs EXCEPT ![o] = kw]
    /\ IF Truthy(id)
       THEN /\ pc' = [pc EXCEPT ![o] = "get_api"]
            /\ UNCHANGED outcome
       ELSE /\ pc' = [pc EXCEPT ![o] = "done"]
            /\ outcome' = [outcome EXCEPT ![o] = "ValueError"]
    /\ UNCHANGED <<_api, conn, api, monitors, todo, monitors_data, beats_calls,
                   record, saved, lvars, fvars, avars, pvars>>

\* monitor = api.get_monitor(monitor_id) returns the monitor's record
GetMonitorOk(o, m) ==
    /\ pc[o] = "get_monitor"
    /\ conn[api[o]] = "logged_in"
    /\ m \in StoredMonitors(edited_id[o])
    /\ Called(o, "get_monitor", FALSE)
    /\ record' = [record EXCEPT ![o] = <<m>>]
    /\ pc' = [pc EXCEPT ![o] = "edit_monitor"]
    /\ UNCHANGED <<_api, conn, api, monitors, todo, outcome, kind, monitors_data,
                   beats_calls, edited_id, kwargs, saved, error_msg, message,
                   fvars, avars, pvars>>

\* api.get_monitor raises: wrapped into UptimeKumaException
GetMonitorFails(o) ==
    /\ pc[o] = "get_monitor"
    /\ Called(o, "get_monitor", TRUE)
    /\ outcome' = [outcome EXCEPT ![o] = "UptimeKumaException"]
    /\ pc' = [pc EXCEPT ![o] = "finally"]
    /\ UNCHANGED <<_api, conn, api, monitors, todo, kind, monitors_data, beats_calls,
                   evars, error_msg, message, fvars, avars, pvars>>

\* the supplied values are laid over the record and
\* api.edit_monitor(monitor_id, **monitor) returns: return True
EditMonitorOk(o) ==
    /\ pc[o] = "edit_monitor"
    /\ conn[api[o]] = "logged_in"
    /\ Called(o, "edit_monitor", FALSE)
    /\ saved' = [saved EXCEPT ![o] = <<overlay(record[o][1], kwargs[o])>>]
    /\ outcome' = [outcome EXCEPT ![o] = "ok"]
    /\ pc' = [pc EXCEPT ![o] = "finally"]
    /\ UNCHANGED <<_api, conn, api, monitors, todo, kind, monitors_data, beats_calls,
                   edited_id, kwargs, record, error_msg, message, fvars, avars, pvars>>

\* the supplied values are laid over the record and api.edit_monitor raises:
\* wrapped into UptimeKumaException
EditMonitorFails(o) ==
    /\ pc[o] = "edit_monitor"
    /\ Called(o, "edit_monitor", TRUE)
    /\ saved' = [saved EXCEPT ![o] = <<overlay(record[o][1], kwargs[o])>>]
    /\ outcome' = [outcome EXCEPT ![o] = "UptimeKumaException"]
    /\ pc' = [pc EXCEPT ![o] = "finally"]
    /\ UNCHANGED <<_api, conn, api, monitors, todo, kind, monitors_data, beats_calls,
                   edited_id, kwargs, record, error_msg, message, fvars, avars, pvars>>

\* finally with a _disconnect that lets the error of disconnect() out: the
\* error replaces the operation's outcome and self._api keeps the session
FinallyRaises(o, disconnect_raises) ==
    /\ pc[o] = "finally"
    /\ IF api[o] # 0 /\ _api # 0
       THEN /\ conn' = [conn EXCEPT ![_api] = "disconnected"]
            /\ _api' = IF disconnect_raises THEN _api ELSE 0
            /\ outcome' = [outcome EXCEPT
                   ![o] = IF disconnect_raises THEN "UptimeKumaException" ELSE @]
            /\ Called(o, "disconnect", disconnect_raises)
       ELSE /\ ~disconnect_raises
            /\ UNCHANGED <<_api, conn, calls, outcome>>
    /\ pc' = [pc EXCEPT ![o] = "done"]
    /\ UNCHANGED <<api, monitors, todo, kind, monitors_data, beats_calls, evars,
                   error_msg, message, fvars, avars, pvars>>

\* finally: `if api: self._disconnect()`; _disconnect calls disconnect() on
\* self._api when it is not None, an error of the call is only logged, and
\* self._api = None is set in either case; then the result or the error
\* reaches the caller
Finally(o, disconnect_raises) ==
    /\ pc[o] = "finally"
    /\ IF api[o] # 0 /\ _api # 0
       THEN /\ conn' = [conn EXCEPT ![_api] = "disconnected"]
            /\ _api' = 0
            /\ Called(o, "disconnect", disconnect_raises)
       ELSE /\ ~disconnect_raises
            /\ UNCHANGED <<_api, conn, calls>>
    /\ pc' = [pc EXCEPT ![o] = "done"]
    /\ UNCHANGED <<api, monitors, todo, outcome, kind, monitors_data, beats_calls, evars,
                   error_msg, message, fvars, avars, pvars>>

Init ==
    /\ backend = "uptime_kuma"
    /\ monitor = KumaRecord(ABSENT, ABSENT, <<>>)
    /\ view = <<>>
    /\ phase = "fetched"
    /\ prev_uptime = NA
    /\ InitSession
    /\ NoRequest
    /\ config = Configured
    /\ psps = <<>>

Next ==
    \E o \in Ops :
        \/ Call(o)
        \/ GetApiCached(o)
        \/ Connect(o)
        \/ ImportFails(o)
        \/ \E text \in ErrorTexts : ConnectFails(o, text)
        \/ LoginOk(o)
        \/ \E text \in ErrorTexts : LoginFails(o, text)
        \/ \E n \in 0..MaxMonitors : GetMonitorsOk(o, n)
        \/ GetMonitorsFails(o)
        \/ \E fetched \in BOOLEAN : FetchBeats(o, fetched)
        \/ FormatRaises(o)
        \/ ReturnMonitors(o)
        \/ \E disconnect_raises \in BOOLEAN : Finally(o, disconnect_raises)

Spec == Init /\ [][Next]_vars

\* --------------------------------------------------- formatting machine
InitFormat ==
    /\ \/ backend = "uptime_kuma" /\ IsKumaMonitor(monitor)
       \/ backend = "uptime_robot" /\ monitor \in RobotMonitors
    /\ view = <<>>
    /\ phase = "fetched"
    /\ prev_uptime = NA
    /\ InitSession
    /\ NoRequest
    /\ config = Configured
    /\ psps = <<>>

\* UptimeKumaService.get_monitors / get_monitor: project the fetched record
KumaFormatMonitor ==
    /\ backend = "uptime_kuma"
    /\ phase = "fetched"
    /\ view' = <<_format_monitor(monitor)>>
    /\ phase' = "formatted"
    /\ UNCHANGED <<backend, monitor, prev_uptime, svars, avars, pvars>>

\* UptimeRobotService.get_monitors: project the fetched record
RobotFormatMonitor ==
    /\ backend = "uptime_robot"
    /\ phase = "fetched"
    /\ view' = <<robot_format_monitor(monitor)>>
    /\ phase' = "formatted"
    /\ UNCHANGED <<backend, monitor, prev_uptime, svars, avars, pvars>>

\* a later get_monitors call: the backend returns the same heartbeats in
\* another order and the record is projected again
KumaRefetch(how) ==
    /\ backend = "uptime_kuma"
    /\ phase = "formatted"
    /\ "_heartbeats" \in DOMAIN monitor
    /\ Reorder(how, monitor._heartbeats) # monitor._heartbeats
    /\ monitor' = [monitor EXCEPT !._heartbeats = Reorder(how, @)]
    /\ view' = <<_format_monitor(monitor')>>
    /\ phase' = "refetched"
    /\ prev_uptime' = view[1].uptime
    /\ UNCHANGED <<backend, svars, avars, pvars>>

NextFormat ==
    \/ KumaFormatMonitor
    \/ RobotFormatMonitor
    \/ \E how \in Reorderings : KumaRefetch(how)

SpecFormat == InitFormat /\ [][NextFormat]_vars

\* ------------------------------------------------------- request machine
\* One request is handled per behaviour.  A request runs one operation: a
\* method of a client obtained from its factory, the unified listing, or the
\* route that adds monitors to a Backend A status page.  As in app.py, every
\* request builds its own client object, so the Uptime Kuma operation of a
\* request is operation 1 of the session machine, on a fresh object.
RobotOps ==
    {"UptimeRobotService.get_monitors", "UptimeRobotService.add_monitor",
     "UptimeRobotService.edit_monitor", "UptimeRobotService.delete_monitor",
     "UptimeRobotService.get_status_pages", "UptimeRobotService.add_status_page",
     "UptimeRobotService.edit_status_page", "UptimeRobotService.delete_status_page"}

KumaOps ==
    {"UptimeKumaService.get_monitors", "UptimeKumaService.add_monitor",
     "UptimeKumaService.edit_monitor"}

Unified == "get_all_monitors"
PageAdd == "add_monitors_to_uptime_robot_status_page"
PageRemove == "remove_monitor_from_uptime_robot_status_page"
PageRoutes == {PageAdd, PageRemove}

\* the routes for the monitors of an Uptime Kuma status page
KumaPageRoutes ==
    {"add_monitors_to_uptime_kuma_status_page",
     "remove_monitor_from_uptime_kuma_status_page"}

Routes == RobotOps \cup KumaOps \cup {Unified} \cup PageRoutes \cup KumaPageRoutes

\* the API method an operation posts to
Method(r) ==
    CASE r \in {"UptimeRobotService.get_monitors", Unified} -> "getMonitors"
      [] r = "UptimeRobotService.add_monitor" -> "newMonitor"
      [] r = "UptimeRobotService.edit_monitor" -> "editMonitor"
      [] r = "UptimeRobotService.delete_monitor" -> "deleteMonitor"
      [] r \in {"UptimeRobotService.get_status_pages"} \cup PageRoutes -> "getPSPs"
      [] r = "UptimeRobotService.add_status_page" -> "newPSP"
      [] r = "UptimeRobotService.edit_status_page" -> "editPSP"
      [] r = "UptimeRobotService.delete_status_page" -> "deletePSP"

\* the arguments drawn for each operation
Names == {"", "site"}
Urls == {"", "https://example.com"}
MonitorTypes == {"http", "HTTPS", "ping"}
Ids == {None, 0, -5, 7}
PageIds == {1, 2}
IdLists == {<<>>, <<1>>, <<2, 3>>, <<3, 3>>}
RemovedIds == {None, 2, 3}

ArgsOf(r) ==
    CASE r = "UptimeRobotService.add_monitor" ->
             {[NoArgs EXCEPT !.name = n, !.url = u] : n \in Names, u \in Urls}
      [] r \in {"UptimeRobotService.edit_monitor", "UptimeRobotService.delete_monitor",
                "UptimeRobotService.delete_status_page"} ->
             {[NoArgs EXCEPT !.id = i] : i \in Ids}
      [] r = "UptimeRobotService.edit_status_page" ->
             {[NoArgs EXCEPT !.id = i, !.monitors = <<1, 2>>] : i \in Ids}
      [] r = "UptimeRobotService.add_status_page" ->
             {[NoArgs EXCEPT !.name = n, !.monitors = l] : n \in Names, l \in IdLists}
      [] r = "UptimeKumaService.add_monitor" ->
             {[NoArgs EXCEPT !.name = n, !.url = u, !.monitor_type = t] :
                 n \in Names, u \in Urls, t \in MonitorTypes}
      [] r = PageAdd ->
             {[NoArgs EXCEPT !.id = i, !.monitors = l] : i \in PageIds, l \in IdLists}
      [] r = "UptimeKumaService.edit_monitor" ->
             {[NoArgs EXCEPT !.id = i, !.kwargs = kw] : i \in Ids, kw \in Kwargs}
      [] r = PageRemove ->
             {[NoArgs EXCEPT !.id = i, !.monitor_id = m] :
                 i \in PageIds, m \in RemovedIds}
      [] OTHER -> {NoArgs}

\* the listing of n raw monitors Backend A answers getMonitors with
RobotListing(n) ==
    [i \in 1..n |->
        [id |-> i, status |-> IF i = 1 THEN 2 ELSE ABSENT,
         average_response_time |-> IF i = 1 THEN 250 ELSE ABSENT,
         type |-> 1, interval |-> ABSENT]]

\* the status pages Backend A answers getPSPs with: page 1 and its members
PspListing == <<[id |-> 1, monitors |-> [i \in 1..Len(psps[1]) |-> [id |-> psps[1][i]]]]>>

\* get_uptime_robot_service and UptimeRobotService.__init__: `if not api_key`
robot_configured(c) == c.api_key

\* the factory with a check that passes when any credential is present
kuma_configured_any(c) == c.url \/ c.username \/ c.password

\* get_uptime_kuma_service and UptimeKumaService.__init__:
\* `if not all([url, username, password])`
kuma_configured(c) == c.url /\ c.username /\ c.password

\* the check `if not monitor_id` with `is None` in its place
monitor_id_not_none(monitor_id) == monitor_id # None

\* edit_monitor, delete_monitor: `if not monitor_id: raise ValueError`
monitor_id_given(monitor_id) == Truthy(monitor_id)

\* the client methods with their argument checks removed
robot_args_unchecked(r, a) == TRUE

\* the argument checks of the Backend A operations; the routes that add
\* monitors to a page or remove one check monitor_ids or monitor_id
robot_args_ok(r, a) ==
    CASE r = "UptimeRobotService.add_monitor" -> a.name # "" /\ a.url # ""
      [] r \in {"UptimeRobotService.edit_monitor", "UptimeRobotService.delete_monitor"} ->
             monitor_id_given(a.id)
      [] r \in {"UptimeRobotService.edit_status_page",
                "UptimeRobotService.delete_status_page"} -> Truthy(a.id)
      [] r = "UptimeRobotService.add_status_page" -> a.name # "" /\ a.monitors # <<>>
      [] r = PageAdd -> a.monitors # <<>>
      [] r = PageRemove -> Truthy(a.monitor_id)
      [] OTHER -> TRUE

\* what the HTTP exchange of _make_request can come to
HttpOutcomes == {"ok", "stat_fail", "timeout", "connection_error", "http_error", "not_json"}

\* the `error` object of a response whose stat is not ok; "absent": no such key
RemoteErrors ==
    {[type |-> "absent", message |-> "absent"],
     [type |-> "invalid_parameter", message |-> "monitor not found"]}

NoReason == [text |-> "none", type |-> "", message |-> ""]

\* _make_request with a single handler that reports every failure alike
ErrorReasonGeneric(h, err, json_error_is_request_exception) ==
    [NoReason EXCEPT !.text = "Request error"]

\* the message of the UptimeRobotException _make_request raises.  A body that
\* is not JSON makes response.json() raise an error that is a ValueError and,
\* from requests 2.27 on, also a RequestException, whose handler comes first.
ErrorReason(h, err, json_error_is_request_exception) ==
    CASE h = "stat_fail" ->
             [text |-> "API Error",
              type |-> IF err.type = "absent" THEN "unknown" ELSE err.type,
              message |-> IF err.message = "absent" THEN "Unknown error" ELSE err.message]
      [] h = "timeout" ->
             [NoReason EXCEPT !.text = "Request timeout - Uptime Robot API not responding"]
      [] h = "connection_error" ->
             [NoReason EXCEPT !.text = "Connection error - Cannot reach Uptime Robot API"]
      [] h = "http_error" -> [NoReason EXCEPT !.text = "Request error"]
      [] h = "not_json" ->
             [NoReason EXCEPT !.text = IF json_error_is_request_exception
                                       THEN "Request error"
                                       ELSE "Invalid JSON response"]

\* where the handler goes when the Backend A part has ended, had the
\* unified listing no handler around that part
AfterRobotStopsOnFailure(r, failed) ==
    IF r = Unified /\ ~failed THEN "kuma_service"
    ELSE IF r \in PageRoutes /\ ~failed THEN "lookup"
    ELSE "done"

\* where the handler goes when the Backend A part has ended
AfterRobot(r, failed) ==
    IF r = Unified THEN "kuma_service"
    ELSE IF r \in PageRoutes /\ ~failed THEN "lookup"
    ELSE "done"

\* where the handler goes when the Backend B part has ended, had the
\* unified listing no handler around that part
AfterKumaRaises(r, failed) == IF r = Unified /\ ~failed THEN "respond" ELSE "done"

\* where the handler goes when the Backend B part has ended
AfterKuma(r, failed) == IF r = Unified THEN "respond" ELSE "done"

\* the error response of a route, nothing for a client method (the error
\* propagates to the caller)
Failed(r, error) ==
    IF r \in PageRoutes THEN <<[success |-> FALSE, value |-> <<>>, error |-> error]>>
    ELSE <<>>

\* what went wrong with the arguments of a route
ArgumentError(r) ==
    IF r = PageAdd THEN "No monitors specified" ELSE "Monitor ID is required"

\* the request arrives; get_all_monitors starts from two empty lists
Request(r, a) ==
    /\ rpc = "idle"
    /\ route' = r
    /\ args' = a
    /\ rpc' = IF r \in KumaOps THEN "kuma_service"
              ELSE IF r \in KumaPageRoutes THEN "kuma_page"
              ELSE "robot_service"
    /\ all_monitors' = IF r = Unified
                       THEN <<[uptime_robot |-> <<>>, uptime_kuma |-> <<>>]>>
                       ELSE all_monitors
    /\ UNCHANGED <<config, posts, raised, reason, result, psps, payload, attempts, data,
                   response, fvars, svars, pvars>>

\* get_uptime_robot_service: ValueError when the API key is empty
RobotService ==
    /\ rpc = "robot_service"
    /\ attempts' = Append(attempts, "uptime_robot")
    /\ IF robot_configured(config)
       THEN /\ rpc' = "validate"
            /\ UNCHANGED <<raised, result>>
       ELSE /\ raised' = [raised EXCEPT !.uptime_robot = "ValueError"]
            /\ rpc' = AfterRobot(route, TRUE)
            /\ result' = Failed(route, "Uptime Robot API key not configured")
    /\ UNCHANGED <<config, route, args, posts, reason, psps, payload, all_monitors, data,
                   response, fvars, svars, pvars>>

\* str(k) as its tokens: a minus sign is the same character as the separator
Str(k) == IF k < 0 THEN <<DASH, -k>> ELSE <<k>>

\* '-'.join(map(str, monitors)): the tokens of the dash-joined string
RECURSIVE DashJoin(_)
DashJoin(l) ==
    IF l = <<>> THEN <<>>
    ELSE IF Len(l) = 1 THEN Str(l[1])
    ELSE Str(l[1]) \o <<DASH>> \o DashJoin(Tail(l))

\* the monitor ids a dash-joined string lists, in its order
DashFields(str) == LET IsId(t) == t # DASH IN SelectSeq(str, IsId)

Range(l) == {l[i] : i \in 1..Len(l)}

\* the lists that enumerate a set once each, in any order
Orderings(S) == {l \in [1..Cardinality(S) -> S] : Range(l) = S}

\* the merged list with the duplicates kept
updated_monitors_concat(current, requested) == {current \o requested}

\* list(set(current_monitors + monitor_ids)): the order of a set is not fixed
updated_monitors(current, requested) == Orderings(Range(current \o requested))

\* the operation's argument checks, before any request; edit_status_page
\* then builds its payload
Validate ==
    /\ rpc = "validate"
    /\ IF robot_args_ok(route, args)
       THEN /\ rpc' = "request"
            /\ payload' = IF route = "UptimeRobotService.edit_status_page"
                           THEN <<[id |-> args.id, monitors |-> DashJoin(args.monitors)]>>
                           ELSE payload
            /\ UNCHANGED <<raised, result>>
       ELSE /\ rpc' = "done"
            /\ result' = Failed(route, ArgumentError(route))
            /\ raised' = IF route \in PageRoutes THEN raised
                         ELSE [raised EXCEPT !.uptime_robot = "ValueError"]
            /\ UNCHANGED payload
    /\ UNCHANGED <<config, route, args, posts, reason, psps, attempts,
                   all_monitors, data, response,
                   fvars, svars, pvars>>

\* what a successful request returns
Response(method, n) ==
    IF method = "getMonitors" THEN RobotListing(n)
    ELSE IF method = "getPSPs" THEN PspListing
    ELSE <<>>

\* list comprehension over _format_monitor
RobotMonitorsOf(raw) == [i \in 1..Len(raw) |-> robot_format_monitor(raw[i])]

\* _make_request with a second attempt after a timeout, which times out too
_make_request_retries(h, err, json_error_is_request_exception, n) ==
    /\ rpc \in {"request", "edit_request"}
    /\ LET method == IF rpc = "edit_request" THEN "editPSP" ELSE Method(route)
       IN  /\ posts' = IF h = "timeout" THEN posts \o <<method, method>>
                     ELSE Append(posts, method)
           /\ response' = <<[outcome |-> h, error |-> err]>>
           /\ IF h = "ok"
              THEN /\ data' = IF rpc = "edit_request" THEN data ELSE Response(method, n)
                   /\ rpc' = IF rpc = "edit_request" THEN "done"
                             ELSE AfterRobot(route, FALSE)
                   /\ all_monitors' =
                          IF route = Unified
                          THEN <<[all_monitors[1] EXCEPT
                                     !.uptime_robot = RobotMonitorsOf(data')]>>
                          ELSE all_monitors
                   /\ result' =
                          IF route \in RobotOps \/ rpc = "edit_request"
                          THEN <<[success |-> TRUE,
                                  value |-> IF method = "getMonitors"
                                            THEN RobotMonitorsOf(data') ELSE data',
                                  error |-> ""]>>
                          ELSE result
                   /\ psps' =
                          IF method = "editPSP" /\ payload[1].id \in DOMAIN psps
                          THEN [psps EXCEPT ![payload[1].id] = DashFields(payload[1].monitors)]
                          ELSE psps
                   /\ UNCHANGED <<raised, reason>>
              ELSE /\ raised' = [raised EXCEPT !.uptime_robot = "UptimeRobotException"]
                   /\ reason' = ErrorReason(h, err, json_error_is_request_exception)
                   /\ rpc' = IF rpc = "edit_request" THEN "done"
                             ELSE AfterRobot(route, TRUE)
                   /\ result' = Failed(route, reason'.text)
                   /\ UNCHANGED <<all_monitors, data, psps>>
    /\ UNCHANGED <<config, route, args, payload, attempts, fvars, svars, pvars>>

\* _make_request as called by an operation: one requests.post, then the
\* payload is returned or an UptimeRobotException raised; the operation
\* returns what it makes of the payload, get_all_monitors stores the listing,
\* and Backend A applies an accepted editPSP to the page
_make_request(h, err, json_error_is_request_exception, n) ==
    /\ rpc \in {"request", "edit_request"}
    /\ LET method == IF rpc = "edit_request" THEN "editPSP" ELSE Method(route)
       IN  /\ posts' = Append(posts, method)
           /\ response' = <<[outcome |-> h, error |-> err]>>
           /\ IF h = "ok"
              THEN /\ data' = IF rpc = "edit_request" THEN data ELSE Response(method, n)
                   /\ rpc' = IF rpc = "edit_request" THEN "done"
                             ELSE AfterRobot(route, FALSE)
                   /\ all_monitors' =
                          IF route = Unified
                          THEN <<[all_monitors[1] EXCEPT
                                     !.uptime_robot = RobotMonitorsOf(data')]>>
                          ELSE all_monitors
                   /\ result' =
                          IF route \in RobotOps \/ rpc = "edit_request"
                          THEN <<[success |-> TRUE,
                                  value |-> IF method = "getMonitors"
                                            THEN RobotMonitorsOf(data') ELSE data',
                                  error |-> ""]>>
                          ELSE result
                   /\ psps' =
                          IF method = "editPSP" /\ payload[1].id \in DOMAIN psps
                          THEN [psps EXCEPT ![payload[1].id] = DashFields(payload[1].monitors)]
                          ELSE psps
                   /\ UNCHANGED <<raised, reason>>
              ELSE /\ raised' = [raised EXCEPT !.uptime_robot = "UptimeRobotException"]
                   /\ reason' = ErrorReason(h, err, json_error_is_request_exception)
                   /\ rpc' = IF rpc = "edit_request" THEN "done"
                             ELSE AfterRobot(route, TRUE)
                   /\ result' = Failed(route, reason'.text)
                   /\ UNCHANGED <<all_monitors, data, psps>>
    /\ UNCHANGED <<config, route, args, payload, attempts, fvars, svars, pvars>>

\* the lookup that falls back to the first page when none has the id
page_lookup_first(pages, page_id) ==
    IF \E i \in 1..Len(pages) : pages[i].id = page_id
    THEN {i \in 1..Len(pages) : pages[i].id = page_id}
    ELSE 1..Len(pages)

\* next((p for p in pages if p.get('id') == page_id), None): the positions of
\* the pages with the id, none when no page has it
page_lookup(pages, page_id) == {i \in 1..Len(pages) : pages[i].id = page_id}

\* the member list with nothing taken out
removed_monitors_none(current, monitor_id) == {current}

\* updated_monitors = [m for m in current_monitors if m != monitor_id]
removed_monitors(current, monitor_id) ==
    LET Kept(m) == m # monitor_id IN {SelectSeq(current, Kept)}

\* add_monitors_to_uptime_robot_status_page and
\* remove_monitor_from_uptime_robot_status_page after get_status_pages: the
\* page is looked up, the new member list built and edit_status_page called,
\* which checks the page id and builds the payload
MergeMonitors ==
    /\ rpc = "lookup"
    /\ LET found == page_lookup(data, args.id)
       IN  IF found = {}
           THEN /\ rpc' = "done"
                /\ result' = Failed(route, "Status page not found")
                /\ UNCHANGED <<payload, raised>>
           ELSE LET page == data[CHOOSE i \in found : \A j \in found : i <= j]
                    current_monitors ==
                        [i \in 1..Len(page.monitors) |-> page.monitors[i].id]
                    lists == IF route = PageAdd
                             THEN updated_monitors(current_monitors, args.monitors)
                             ELSE removed_monitors(current_monitors, args.monitor_id)
                IN  IF Truthy(args.id)
                    THEN /\ \E updated \in lists :
                               payload' = <<[id |-> args.id,
                                             monitors |-> DashJoin(updated)]>>
                         /\ rpc' = "edit_request"
                         /\ UNCHANGED <<result, raised>>
                    ELSE /\ rpc' = "done"
                         /\ result' = Failed(route, "Status page ID is required")
                         /\ raised' = [raised EXCEPT !.uptime_robot = "ValueError"]
                         /\ UNCHANGED payload
    /\ UNCHANGED <<config, route, args, posts, reason, psps, attempts, all_monitors,
                   data, response, fvars, svars, pvars>>

\* add_monitors_to_uptime_kuma_status_page and
\* remove_monitor_from_uptime_kuma_status_page: success is returned at once
KumaPage ==
    /\ rpc = "kuma_page"
    /\ result' = <<[success |-> TRUE, value |-> <<>>, error |-> ""]>>
    /\ rpc' = "done"
    /\ UNCHANGED <<config, route, args, posts, raised, reason, psps, payload, attempts,
                   all_monitors, data, response, fvars, svars, pvars>>

\* get_uptime_kuma_service: ValueError unless url, username and password are set
KumaService ==
    /\ rpc = "kuma_service"
    /\ attempts' = Append(attempts, "uptime_kuma")
    /\ IF kuma_configured(config)
       THEN /\ rpc' = "kuma"
            /\ UNCHANGED raised
       ELSE /\ raised' = [raised EXCEPT !.uptime_kuma = "ValueError"]
            /\ rpc' = AfterKuma(route, TRUE)
    /\ UNCHANGED <<config, route, args, posts, reason, result, psps, payload,
                   all_monitors, data, response,
                   fvars, svars, pvars>>

\* service.get_monitors() on the Uptime Kuma client the factory returned
StartGetMonitors ==
    /\ rpc = "kuma"
    /\ route \in {Unified, "UptimeKumaService.get_monitors"}
    /\ Call(1)

\* service.add_monitor(name, url, monitor_type) on the Uptime Kuma client
StartAddMonitor ==
    /\ rpc = "kuma"
    /\ route = "UptimeKumaService.add_monitor"
    /\ CallAddMonitor(1, args.name, args.url, args.monitor_type)

\* service.edit_monitor(monitor_id, **kwargs) on the Uptime Kuma client
StartEditMonitor ==
    /\ rpc = "kuma"
    /\ route = "UptimeKumaService.edit_monitor"
    /\ CallEditMonitor(1, args.id, args.kwargs)

\* the Uptime Kuma operation has ended: its result or its error reaches the
\* handler; get_all_monitors stores the listing
KumaReturn ==
    /\ rpc = "kuma"
    /\ pc[1] = "done"
    /\ IF outcome[1] = "ok"
       THEN /\ all_monitors' =
                   IF route = Unified
                   THEN <<[all_monitors[1] EXCEPT !.uptime_kuma = monitors[1]]>>
                   ELSE all_monitors
            /\ result' = IF route = Unified THEN result
                         ELSE <<[success |-> TRUE, value |-> monitors[1], error |-> ""]>>
            /\ rpc' = AfterKuma(route, FALSE)
            /\ UNCHANGED raised
       ELSE /\ raised' = [raised EXCEPT !.uptime_kuma = outcome[1]]
            /\ rpc' = AfterKuma(route, TRUE)
            /\ UNCHANGED <<all_monitors, result>>
    /\ UNCHANGED <<config, route, args, posts, reason, psps, payload, attempts, data,
                   response, fvars, svars, pvars>>

\* get_all_monitors: return jsonify(all_monitors)
Respond ==
    /\ rpc = "respond"
    /\ result' = all_monitors
    /\ rpc' = "done"
    /\ UNCHANGED <<config, route, args, posts, raised, reason, psps, payload, attempts,
                   all_monitors, data, response,
                   fvars, svars, pvars>>

\* the status pages of Backend A before the request: page 1 and its members
InitialMembers == {<<>>, <<2>>, <<1, 2>>}

InitApp ==
    /\ backend = "uptime_kuma"
    /\ monitor = KumaRecord(ABSENT, ABSENT, <<>>)
    /\ view = <<>>
    /\ phase = "fetched"
    /\ prev_uptime = NA
    /\ InitSession
    /\ NoRequest
    /\ config \in [api_key : BOOLEAN, url : BOOLEAN, username : BOOLEAN,
                    password : BOOLEAN]
    /\ \E members \in InitialMembers : psps = <<members>>

NextApp ==
    \/ \E r \in Routes : \E a \in ArgsOf(r) : Request(r, a)
    \/ RobotService
    \/ Validate
    \/ \E h \in HttpOutcomes, err \in RemoteErrors, j \in BOOLEAN, n \in 0..MaxMonitors :
           _make_request(h, err, j, n)
    \/ MergeMonitors
    \/ KumaPage
    \/ KumaService
    \/ StartGetMonitors
    \/ StartAddMonitor
    \/ StartEditMonitor
    \/ ImportFails(1)
    \/ Connect(1)
    \/ \E text \in ErrorTexts : ConnectFails(1, text)
    \/ LoginOk(1)
    \/ \E text \in ErrorTexts : LoginFails(1, text)
    \/ \E n \in 0..MaxMonitors : GetMonitorsOk(1, n)
    \/ GetMonitorsFails(1)
    \/ \E fetched \in BOOLEAN : FetchBeats(1, fetched)
    \/ FormatRaises(1)
    \/ ReturnMonitors(1)
    \/ AddMonitorOk(1)
    \/ AddMonitorFails(1)
    \/ \E m \in AnyStoredMonitor : GetMonitorOk(1, m)
    \/ GetMonitorFails(1)
    \/ EditMonitorOk(1)
    \/ EditMonitorFails(1)
    \/ \E disconnect_raises \in BOOLEAN : Finally(1, disconnect_raises)
    \/ KumaReturn
    \/ Respond

SpecApp == InitApp /\ [][NextApp]_vars

\* ------------------------------------------- concurrent page requests
\* Two requests of add_monitors_to_uptime_robot_status_page are handled at
\* the same time, each by its own thread with its own client and locals; the
\* pages are on Backend A. A step runs a handler up to its next request.

\* the request arrives: monitor_ids is read and checked
PageRequest(h, page_id, monitor_ids) ==
    /\ handlers[h].pc = "idle"
    /\ handlers' = [handlers EXCEPT
           ![h] = [@ EXCEPT !.page_id = page_id,
                            !.monitor_ids = monitor_ids,
                            !.pc = IF monitor_ids = <<>> THEN "done"
                                   ELSE "get_status_pages"]]
    /\ UNCHANGED <<config, route, rpc, args, posts, raised, reason, result, psps, payload,
                   attempts, all_monitors, data, response, paused, fvars, svars>>

\* service.get_status_pages() returns or raises; when it returns the page is
\* looked up and the new member list is built
GetStatusPages(h, ok) ==
    /\ handlers[h].pc = "get_status_pages"
    /\ posts' = Append(posts, "getPSPs")
    /\ LET found == page_lookup(PspListing, handlers[h].page_id)
       IN  IF ok /\ found # {}
           THEN LET page == PspListing[CHOOSE i \in found : \A j \in found : i <= j]
                    current_monitors ==
                        [i \in 1..Len(page.monitors) |-> page.monitors[i].id]
                IN  \E updated \in updated_monitors(current_monitors,
                                                    handlers[h].monitor_ids) :
                        handlers' = [handlers EXCEPT
                            ![h] = [@ EXCEPT !.current_monitors = current_monitors,
                                             !.updated_monitors = updated,
                                             !.pc = "edit_status_page"]]
           ELSE handlers' = [handlers EXCEPT ![h] = [@ EXCEPT !.pc = "done"]]
    /\ UNCHANGED <<config, route, rpc, args, raised, reason, result, psps, payload,
                   attempts, all_monitors, data, response, paused, fvars, svars>>

\* service.edit_status_page(page_id, monitors=updated_monitors): the request
\* editPSP carries the dash-joined list; when Backend A accepts it the page
\* has the members listed and the handler answers success
EditStatusPage(h, ok) ==
    /\ handlers[h].pc = "edit_status_page"
    /\ posts' = Append(posts, "editPSP")
    /\ psps' = IF ok
               THEN [psps EXCEPT ![handlers[h].page_id] =
                        DashFields(DashJoin(handlers[h].updated_monitors))]
               ELSE psps
    /\ handlers' = [handlers EXCEPT ![h] = [@ EXCEPT !.pc = "done", !.success = ok]]
    /\ UNCHANGED <<config, route, rpc, args, raised, reason, result, payload,
                   attempts, all_monitors, data, response, paused, fvars, svars>>

InitPages ==
    /\ backend = "uptime_robot"
    /\ monitor = KumaRecord(ABSENT, ABSENT, <<>>)
    /\ view = <<>>
    /\ phase = "fetched"
    /\ prev_uptime = NA
    /\ InitSession
    /\ NoRequest
    /\ config = Configured
    /\ \E members \in InitialMembers : psps = <<members>>

NextPages ==
    \E h \in Handlers :
        \/ \E page_id \in PageIds, monitor_ids \in IdLists :
               PageRequest(h, page_id, monitor_ids)
        \/ \E ok \in BOOLEAN : GetStatusPages(h, ok)
        \/ \E ok \in BOOLEAN : EditStatusPage(h, ok)

SpecPages == InitPages /\ [][NextPages]_vars

\* ------------------------------------------------- pause and resume
\* One client works on one monitor of Backend B, one operation after the
\* other, while the backend records new heartbeats. `monitor` is the record
\* the backend stores, with the monitor's heartbeats in _heartbeats.

\* what api.get_monitor returns: the stored record, without the heartbeats
StoredFields(m) == [key \in DOMAIN m \ {"_heartbeats"} |-> m[key]]

\* the statuses of the heartbeats the backend records
ArrivingStatuses == {STATUS_DOWN, STATUS_UP, STATUS_PENDING}

\* edit_monitor(monitor_id, **kw) as a whole: the record is fetched, the
\* values are laid over it and it is written back; on an error nothing is
\* written and UptimeKumaException is raised
EditStored(kw, ok) ==
    /\ outcome' = [outcome EXCEPT ![1] = IF ok THEN "ok" ELSE "UptimeKumaException"]
    /\ IF ok
       THEN /\ record' = [record EXCEPT ![1] = <<StoredFields(monitor)>>]
            /\ saved' = [saved EXCEPT ![1] = <<overlay(StoredFields(monitor), kw)>>]
            /\ monitor' = [key \in DOMAIN monitor |->
                              IF key = "_heartbeats" THEN monitor[key]
                              ELSE saved'[1][1][key]]
       ELSE UNCHANGED <<record, saved, monitor>>
    /\ UNCHANGED <<backend, view, phase, prev_uptime, _api, conn, pc, api, monitors, todo,
                   kind, monitors_data, beats_calls, edited_id, kwargs, lvars, avars,
                   handlers>>

\* pause_monitor with a call that supplies no value for active
PauseMonitorNoValue(ok) ==
    /\ EditStored([active |-> None], ok)
    /\ paused' = IF ok THEN "paused" ELSE paused

\* pause_monitor: return self.edit_monitor(monitor_id, active=False)
PauseMonitor(ok) ==
    /\ EditStored([active |-> 0], ok)
    /\ paused' = IF ok THEN "paused" ELSE paused

\* resume_monitor: return self.edit_monitor(monitor_id, active=True)
ResumeMonitor(ok) ==
    /\ EditStored([active |-> 1], ok)
    /\ paused' = IF ok THEN "resumed" ELSE paused

\* the backend records one more heartbeat of the monitor
Heartbeat(status) ==
    /\ Len(monitor._heartbeats) < MaxBeats
    /\ monitor' = [monitor EXCEPT !._heartbeats =
                      Append(@, [status |-> status,
                                 ping |-> IF status = STATUS_UP THEN 80 ELSE None,
                                 time |-> Len(@) + 1])]
    /\ UNCHANGED <<backend, view, phase, prev_uptime, svars, avars, pvars>>

\* get_monitors: the monitor is listed with its heartbeats and projected
ListMonitor ==
    /\ view' = <<_format_monitor(monitor)>>
    /\ UNCHANGED <<backend, monitor, phase, prev_uptime, svars, avars, pvars>>

InitPause ==
    /\ backend = "uptime_kuma"
    /\ \E a \in {ABSENT, 0, 1}, st \in {ABSENT, STATUS_DOWN, STATUS_UP} :
           monitor = KumaRecord(a, st, <<>>)
    /\ view = <<>>
    /\ phase = "fetched"
    /\ prev_uptime = NA
    /\ InitSession
    /\ NoRequest
    /\ config = Configured
    /\ psps = <<>>

NextPause ==
    \/ \E ok \in BOOLEAN : PauseMonitor(ok)
    \/ \E ok \in BOOLEAN : ResumeMonitor(ok)
    \/ \E status \in ArrivingStatuses : Heartbeat(status)
    \/ ListMonitor

SpecPause == InitPause /\ [][NextPause]_vars

\* ============================================================ properties
\* the heartbeats the projected Uptime Kuma record carries
Beats == IF "_heartbeats" \in DOMAIN monitor THEN monitor._heartbeats ELSE <<>>

KumaFormatted == backend = "uptime_kuma" /\ view # <<>>
RobotFormatted == backend = "uptime_robot" /\ view # <<>>

MonitorActive == Truthy(Get(monitor.active, 1))

\* positions of the heartbeats with the greatest time
Latest(hs) == {i \in 1..Len(hs) : \A j \in 1..Len(hs) : hs[j].time <= hs[i].time}

\* the heartbeat with the greatest time, when there is exactly one
TheLatest(hs) == hs[CHOOSE i \in Latest(hs) : TRUE]

Abs(x) == IF x < 0 THEN -x ELSE x

RECURSIVE PingSum(_, _)
PingSum(hs, I) ==
    IF I = {} THEN 0
    ELSE LET i == CHOOSE j \in I : TRUE IN hs[i].ping + PingSum(hs, I \ {i})

\* C1: for an active monitor whose heartbeats include a status-1 entry, the
\* verdict is UP if and only if the heartbeat with the greatest time has
\* status 1, whatever statuses the other heartbeats and the record's own
\* status field carry.
C1_UpIffLatestBeatUp ==
    (/\ KumaFormatted
     /\ MonitorActive
     /\ \E i \in 1..Len(Beats) : Beats[i].status = 1
     /\ Cardinality(Latest(Beats)) = 1)
    => (view[1].status <=> TheLatest(Beats).status = 1)

\* C2: a monitor whose active flag is false is DOWN, whatever its heartbeats
\* and its status field say.
C2_InactiveIsDown ==
    (KumaFormatted /\ monitor.active = 0) => view[1].status = FALSE

C2_Witness ==
    /\ KumaFormatted
    /\ monitor.active = 0
    /\ monitor.status = STATUS_UP
    /\ Len(Beats) = 2
    /\ \A i \in 1..Len(Beats) : Beats[i].status = 1

\* C3: with no heartbeats and no status field (absent or null) the verdict is
\* DOWN: a boolean, never UP.
C3_NoEvidenceIsDown ==
    (KumaFormatted /\ Beats = <<>> /\ monitor.status \in {ABSENT, None})
    => (view[1].status \in BOOLEAN /\ view[1].status = FALSE)

C3_Witness ==
    /\ KumaFormatted
    /\ Beats = <<>>
    /\ monitor.status = ABSENT
    /\ monitor.active = 1
    /\ view[1].uptime = NA
    /\ view[1].response_time = NA
    /\ view[1].avg_response_time = NA

\* C4: the status of every projection is never null: a boolean for Uptime
\* Kuma, and for Uptime Robot a missing or null status becomes the default.
C4_StatusNeverNull ==
    /\ KumaFormatted => view[1].status \in BOOLEAN
    /\ RobotFormatted => view[1].status # None
    /\ (RobotFormatted /\ monitor.status \in {ABSENT, None})
       => view[1].status = ROBOT_DEFAULT_STATUS

\* C5: the uptime of a non-empty sequence is successes / total x 100 to two
\* decimals, a success being a status of exactly 1; it is 'N/A' exactly when
\* the sequence is empty; statuses [1,0,1] give 66.67.
C5_UptimeIsSuccessRatio ==
    KumaFormatted =>
        LET n == Len(Beats)
            s == Cardinality({i \in 1..n : Beats[i].status = 1})
            u == view[1].uptime
        IN  /\ (u = NA) <=> (n = 0)
            /\ n > 0 => (u \in 0..10000 /\ 2 * Abs(u * n - s * 10000) <= n)
            /\ [i \in 1..n |-> Beats[i].status] = <<1, 0, 1>> => u = 6667

C5_Witness ==
    /\ KumaFormatted
    /\ [i \in 1..Len(Beats) |-> Beats[i].status] = <<1, 0, 1>>
    /\ view[1].uptime = 6667

\* C6: the uptime does not depend on the order of the heartbeats: projecting
\* the same heartbeats in another order gives the same uptime.
C6_UptimeOrderIndependent ==
    phase = "refetched" => view[1].uptime = prev_uptime

C6_Witness ==
    /\ phase = "refetched"
    /\ Len(Beats) >= 2
    /\ Beats[1].status = 1
    /\ Beats[2].status = 0
    /\ view[1].uptime = prev_uptime

C8_CurrentIsLatestPing ==
    KumaFormatted =>
        /\ (Beats # <<>> /\ Cardinality(Latest(Beats)) = 1)
           => view[1].response_time = TheLatest(Beats).ping
        /\ view[1].response_time = NA => Beats = <<>>

\* C9: the average response time is the mean, to zero decimals, of the pings
\* that are non-null and strictly positive; it is 'N/A' exactly when there is
\* no such ping; pings [120, null, 80] give 100.
C9_AverageOfPositivePings ==
    KumaFormatted =>
        LET P == {i \in 1..Len(Beats) : Beats[i].ping # None /\ Beats[i].ping > 0}
            n == Cardinality(P)
            avg == view[1].avg_response_time
        IN  /\ (avg = NA) <=> (P = {})
            /\ P # {} => 2 * Abs(avg * n - PingSum(Beats, P)) <= n
            /\ [i \in 1..Len(Beats) |-> Beats[i].ping] = <<120, None, 80>> => avg = 100

C9_Witness ==
    /\ KumaFormatted
    /\ [i \in 1..Len(Beats) |-> Beats[i].ping] = <<120, None, 80>>
    /\ view[1].avg_response_time = 100

\* C10: every session opened by _get_api, whether or not its login succeeds,
\* has had disconnect called on it when the operation has ended, on every
\* exit path (result, backend error, login failure, unexpected failure).
C10_OpenedSessionsReleased ==
    \A o \in Ops : pc[o] = "done" => conn[o] \in {"unused", "disconnected"}

\* C11: an operation only ever holds the session its own _get_api logged in
\* to, and while it is making data calls that session has not been
\* disconnected; this also when operations on one service object overlap.
C11_SessionPerOperation ==
    \A o \in Ops :
        api[o] # 0 =>
            /\ api[o] = o
            /\ pc[o] \in {"get_monitors", "add_monitor", "beats"}
                   => conn[api[o]] = "logged_in"

\* C12: a get_monitor_beats failure does not end the listing: while the loop
\* runs and when get_monitors returns, there is one projection per raw
\* monitor handled so far, in the backend's order; every handled monitor had
\* its fetch attempted, and the projection carries heartbeats exactly when
\* the fetch returned.
C12_FetchFailureKeepsListing ==
    \A o \in Ops :
        (kind[o] = "get_monitors" /\ (pc[o] = "beats" \/ outcome[o] = "ok")) =>
            /\ Len(monitors[o]) + todo[o] = Len(monitors_data[o])
            /\ Len(beats_calls[o]) = Len(monitors[o])
            /\ \A i \in 1..Len(monitors[o]) :
                   /\ monitors[o][i].id = monitors_data[o][i]
                   /\ beats_calls[o][i].monitor_id = monitors_data[o][i]
                   /\ monitors[o][i].heartbeats = beats_calls[o][i].returned
            /\ outcome[o] = "ok" => todo[o] = 0

C12_Witness ==
    \E o \in Ops :
        /\ pc[o] = "done"
        /\ outcome[o] = "ok"
        /\ monitors_data[o] = <<1, 2>>
        /\ monitors[o] = <<[id |-> 1, heartbeats |-> FALSE],
                           [id |-> 2, heartbeats |-> TRUE]>>

\* the Backend B settings are all present
KumaSettings == config.url /\ config.username /\ config.password

\* C13: the unified listing answers with exactly the keys uptime_robot and
\* uptime_kuma whatever the backends do; a backend that is unconfigured or
\* whose query failed contributes the empty list, a backend whose query
\* succeeded contributes the monitors its client returned.
C13_UnifiedListingTotal ==
    (route = Unified /\ rpc = "done") =>
        /\ Len(result) = 1
        /\ DOMAIN result[1] = {"uptime_robot", "uptime_kuma"}
        /\ result[1].uptime_robot =
               IF config.api_key /\ response # <<>> /\ response[1].outcome = "ok"
               THEN RobotMonitorsOf(data) ELSE <<>>
        /\ result[1].uptime_kuma =
               IF KumaSettings /\ outcome[1] = "ok" THEN monitors[1] ELSE <<>>

C13_Witness ==
    /\ route = Unified
    /\ rpc = "done"
    /\ config.api_key
    /\ Len(result[1].uptime_robot) = 2
    /\ outcome[1] = "UptimeKumaException"
    /\ result[1].uptime_kuma = <<>>

\* C14: in the unified listing Backend B is queried after Backend A, and it
\* is queried whatever Backend A's part came to (unconfigured, error, result).
C14_KumaQueriedAfterRobot ==
    /\ route = Unified =>
           attempts \in {<<>>, <<"uptime_robot">>, <<"uptime_robot", "uptime_kuma">>}
    /\ (route = Unified /\ rpc = "done") =>
           attempts = <<"uptime_robot", "uptime_kuma">>

C14_Witness ==
    /\ route = Unified
    /\ rpc = "done"
    /\ raised.uptime_robot = "UptimeRobotException"
    /\ attempts = <<"uptime_robot", "uptime_kuma">>
    /\ outcome[1] = "ok"

\* C15: with the Backend A key empty no request is ever posted and every
\* Backend A operation ends in the configuration error (ValueError); with
\* any of the Backend B url, username, password empty no session is ever
\* opened and every Backend B operation ends in the configuration error.
C15_UnconfiguredNoNetwork ==
    /\ ~config.api_key =>
           /\ posts = <<>>
           /\ (rpc = "done" /\ route \in RobotOps \cup PageRoutes \cup {Unified})
                  => raised.uptime_robot = "ValueError"
    /\ ~KumaSettings =>
           /\ conn[1] = "unused" /\ pc[1] = "idle" /\ _api = 0
           /\ (rpc = "done" /\ route \in KumaOps \cup {Unified})
                  => raised.uptime_kuma = "ValueError"

C15_Witness ==
    /\ route = "UptimeKumaService.add_monitor"
    /\ rpc = "done"
    /\ config.url /\ config.username /\ ~config.password
    /\ raised.uptime_kuma = "ValueError"
    /\ conn[1] = "unused"

\* the request's arguments fail a check of its operation
BadArguments ==
    \/ /\ route = "UptimeRobotService.add_monitor"
       /\ (args.name = "" \/ args.url = "")
    \/ /\ route = "UptimeKumaService.add_monitor"
       /\ (args.name = "" \/ (args.monitor_type \in {"http", "HTTPS"} /\ args.url = ""))
    \/ /\ route \in {"UptimeRobotService.edit_monitor", "UptimeRobotService.delete_monitor",
                      "UptimeRobotService.edit_status_page",
                      "UptimeRobotService.delete_status_page"}
       /\ args.id \in {None, 0}
    \/ /\ route = "UptimeRobotService.add_status_page"
       /\ (args.name = "" \/ args.monitors = <<>>)
    \/ /\ route = PageAdd
       /\ args.monitors = <<>>

\* C16: an operation whose arguments fail a check (add_monitor with an empty
\* name, on either backend; a missing id; an empty title or monitor list)
\* never posts a request and never opens or logs in to a session, and a
\* client method ends in the validation error (ValueError).
C16_ChecksBeforeNetwork ==
    BadArguments =>
        /\ posts = <<>>
        /\ conn[1] = "unused" /\ _api = 0
        /\ (rpc = "done" /\ route \in RobotOps /\ config.api_key)
               => raised.uptime_robot = "ValueError"
        /\ (rpc = "done" /\ route \in KumaOps /\ KumaSettings)
               => raised.uptime_kuma = "ValueError" /\ outcome[1] = "ValueError"

C16_Witness ==
    /\ route = "UptimeKumaService.add_monitor"
    /\ args.name = ""
    /\ KumaSettings
    /\ rpc = "done"
    /\ outcome[1] = "ValueError"
    /\ conn[1] = "unused"

\* an edit_monitor or delete_monitor call on a configured Backend A has ended
MonitorIdOpDone ==
    /\ route \in {"UptimeRobotService.edit_monitor", "UptimeRobotService.delete_monitor"}
    /\ config.api_key
    /\ rpc = "done"

\* C17 (as stated): for every id that is not a positive integer (zero,
\* negative, missing) edit_monitor and delete_monitor end in the validation
\* error and post no request.
C17_OnlyPositiveIds ==
    (MonitorIdOpDone /\ (args.id = None \/ args.id <= 0)) =>
        /\ raised.uptime_robot = "ValueError"
        /\ posts = <<>>

\* C17 (amended): for every id that is missing or zero edit_monitor and
\* delete_monitor end in the validation error and post no request; every
\* other id, a negative one included, passes the check and is posted once.
C17_MissingOrZeroIdRejected ==
    MonitorIdOpDone =>
        IF args.id \in {None, 0}
        THEN raised.uptime_robot = "ValueError" /\ posts = <<>>
        ELSE raised.uptime_robot # "ValueError" /\ posts = <<Method(route)>>

C17_Witness ==
    /\ MonitorIdOpDone
    /\ route = "UptimeRobotService.delete_monitor"
    /\ args.id = 0
    /\ raised.uptime_robot = "ValueError"
    /\ posts = <<>>

\* C18: a Backend A client operation never posts more than one request, and
\* one that has ended without a configuration or validation error has posted
\* exactly one, to its own API method, whatever the exchange came to.
C18_ExactlyOneRequest ==
    route \in RobotOps =>
        /\ Len(posts) <= 1
        /\ (rpc = "done" /\ raised.uptime_robot # "ValueError")
               => posts = <<Method(route)>>

C18_Witness ==
    /\ route = "UptimeRobotService.add_monitor"
    /\ rpc = "done"
    /\ response # <<>>
    /\ response[1].outcome = "timeout"
    /\ posts = <<"newMonitor">>

\* the error reasons each failure of the exchange may produce
ReasonsOf(h) ==
    CASE h = "stat_fail" -> {"API Error"}
      [] h = "timeout" -> {"Request timeout - Uptime Robot API not responding"}
      [] h = "connection_error" -> {"Connection error - Cannot reach Uptime Robot API"}
      [] h = "not_json" -> {"Invalid JSON response", "Request error"}

\* C19: a Backend A request whose response has stat other than ok, that times
\* out, that cannot connect, or whose body is not JSON ends in
\* UptimeRobotException and returns no payload; the reason of a remote error
\* carries its type and message; the four cases give reasons that differ.
C19_FailuresAreBackendErrors ==
    LET Cases == {"stat_fail", "timeout", "connection_error", "not_json"}
    IN  /\ \A g, h \in Cases : g # h => ReasonsOf(g) \cap ReasonsOf(h) = {}
        /\ (route \in RobotOps /\ rpc = "done" /\ response # <<>>
                /\ response[1].outcome \in Cases) =>
               /\ raised.uptime_robot = "UptimeRobotException"
               /\ result = <<>>
               /\ reason.text \in ReasonsOf(response[1].outcome)
               /\ (response[1].outcome = "stat_fail"
                      /\ response[1].error.type # "absent") =>
                      /\ reason.type = response[1].error.type
                      /\ reason.message = response[1].error.message

C19_Witness ==
    /\ route = "UptimeRobotService.get_monitors"
    /\ rpc = "done"
    /\ response # <<>>
    /\ response[1].outcome = "stat_fail"
    /\ reason = [text |-> "API Error", type |-> "invalid_parameter",
                 message |-> "monitor not found"]
    /\ result = <<>>

\* the members of the page add_monitors_to_uptime_robot_status_page read
CurrentMembers == {data[1].monitors[i].id : i \in 1..Len(data[1].monitors)}

\* C20: the edit that adds monitors to a Backend A status page lists exactly
\* the union of the page's current members and the requested ids, each id
\* once; when Backend A accepts the edit that union is the page's membership.
C20_AddMonitorsIsUnion ==
    (route = PageAdd /\ payload # <<>>) =>
        LET sent == DashFields(payload[1].monitors)
            union == CurrentMembers \cup Range(args.monitors)
        IN  /\ payload[1].id = args.id
            /\ Range(sent) = union
            /\ Len(sent) = Cardinality(union)
            /\ (rpc = "done" /\ response[1].outcome = "ok") => Range(psps[1]) = union

C20_Witness ==
    /\ route = PageAdd
    /\ rpc = "done"
    /\ response # <<>>
    /\ response[1].outcome = "ok"
    /\ posts = <<"getPSPs", "editPSP">>
    /\ CurrentMembers = {1, 2}
    /\ args.monitors = <<2, 3>>
    /\ Range(psps[1]) = {1, 2, 3}

\* C23: for an active monitor with a non-empty heartbeat sequence the verdict
\* does not depend on the record's own status field: it is the verdict the
\* same heartbeats give when the record has no status field at all.
C23_BeatsBeforeStatusField ==
    (KumaFormatted /\ MonitorActive /\ Beats # <<>>) =>
        view[1].status =
            _determine_status_from_heartbeats([monitor EXCEPT !.status = ABSENT], Beats)

\* the member ids of the page the page routes read, in the page's order
CurrentList == [i \in 1..Len(data[1].monitors) |-> data[1].monitors[i].id]

\* the page routes found the page they were asked for
PageFound == data # <<>> /\ \E i \in 1..Len(data) : data[i].id = args.id

\* C21: removing a monitor from a Backend A status page lists the pages, finds
\* the page by id and then posts one edit whose member list is the page's
\* current list without the removed id, every other member kept in place,
\* also when the list becomes empty or the id was no member.
C21_RemoveMonitorIsDifference ==
    route = PageRemove =>
        /\ (rpc = "done" /\ PageFound) => posts = <<"getPSPs", "editPSP">>
        /\ payload # <<>> =>
               LET Kept(m) == m # args.monitor_id
               IN  /\ PageFound
                   /\ payload[1].id = args.id
                   /\ DashFields(payload[1].monitors) = SelectSeq(CurrentList, Kept)
                   /\ posts \in {<<"getPSPs">>, <<"getPSPs", "editPSP">>}

C21_Witness ==
    /\ route = PageRemove
    /\ rpc = "done"
    /\ posts = <<"getPSPs", "editPSP">>
    /\ response[1].outcome = "ok"
    /\ CurrentList = <<2>>
    /\ args.monitor_id = 2
    /\ payload[1].monitors = <<>>
    /\ psps[1] = <<>>

\* C22: the two routes for the monitors of a Backend B status page do not
\* answer with success, and they call no backend.
C22_KumaPageNotSuccess ==
    (route \in KumaPageRoutes /\ rpc = "done") =>
        /\ ~result[1].success
        /\ posts = <<>> /\ attempts = <<>>
        /\ conn[1] = "unused" /\ _api = 0

\* C26: when Backend A lists no page with the given id, adding monitors to the
\* page and removing one from it answer "Status page not found", no edit is
\* posted and the pages keep their members.
C26_NoPageNoEdit ==
    (route \in PageRoutes /\ data # <<>> /\ ~PageFound /\ rpc = "done") =>
        /\ result = <<[success |-> FALSE, value |-> <<>>,
                       error |-> "Status page not found"]>>
        /\ posts = <<"getPSPs">>
        /\ payload = <<>>
        /\ psps[1] = CurrentList

C26_Witness ==
    /\ route = PageRemove
    /\ rpc = "done"
    /\ args.id = 2 /\ args.monitor_id = 2
    /\ data # <<>>
    /\ CurrentList = <<1, 2>>
    /\ result # <<>>
    /\ result[1].error = "Status page not found"
    /\ psps[1] = <<1, 2>>

\* the calls of a session that read or change the backend's data
DataCalls == {"get_monitors", "get_monitor_beats", "get_monitor", "add_monitor",
              "edit_monitor"}

\* the positions in the operation's call log of the calls named
CallsOf(names) == {i \in 1..Len(calls[1]) : calls[1][i].call \in names}

\* the call of the operation that raised in _get_api, "none" if none did
FailedInit ==
    IF \E i \in CallsOf({"UptimeKumaApi", "login"}) : calls[1][i].raised
    THEN calls[1][Len(calls[1])].call
    ELSE "none"

\* C24: what edit_monitor writes is the fetched record with each supplied
\* value that is not None in place of the fetched one and every other field
\* as fetched, and the write is issued only after get_monitor returned.
C24_EditIsReadModifyWrite ==
    \A i \in CallsOf({"edit_monitor"}) :
        /\ i > 1
        /\ calls[1][i - 1] = [call |-> "get_monitor", raised |-> FALSE]
        /\ record[1] # <<>> /\ saved[1] # <<>>
        /\ DOMAIN saved[1][1] = DOMAIN record[1][1] \cup DOMAIN kwargs[1]
        /\ \A key \in DOMAIN saved[1][1] :
               saved[1][1][key] =
                   IF key \in DOMAIN kwargs[1] /\ kwargs[1][key] # None
                   THEN kwargs[1][key]
                   ELSE record[1][1][key]

C24_Witness ==
    /\ route = "UptimeKumaService.edit_monitor"
    /\ rpc = "done"
    /\ outcome[1] = "ok"
    /\ DOMAIN kwargs[1] = {"active", "interval"}
    /\ kwargs[1]["active"] = 0 /\ kwargs[1]["interval"] = None
    /\ record[1] = <<[id |-> 7, active |-> 1, status |-> ABSENT,
                      interval |-> KUMA_DEFAULT_INTERVAL]>>
    /\ saved[1] = <<[id |-> 7, active |-> 0, status |-> ABSENT,
                     interval |-> KUMA_DEFAULT_INTERVAL]>>

\* C25: an error of the constructor (the server is not reached) is never
\* raised as "Authentication failed", and an error of the login is never
\* raised as "Cannot connect".
C25_CauseDecidesError ==
    /\ FailedInit = "UptimeKumaApi" => message[1] # "Authentication failed"
    /\ FailedInit = "login" => message[1] # "Cannot connect"

\* C28: every data call of an operation comes after a login of the
\* operation that returned, and an operation whose connection or login
\* raised makes no data call.
C28_LoginBeforeData ==
    /\ \A i \in CallsOf(DataCalls) :
           \E j \in 1..(i - 1) : calls[1][j] = [call |-> "login", raised |-> FALSE]
    /\ FailedInit # "none" => CallsOf(DataCalls) = {}

C28_Witness ==
    /\ route = "UptimeKumaService.get_monitors"
    /\ pc[1] = "done"
    /\ Len(calls[1]) = 6
    /\ calls[1][2] = [call |-> "login", raised |-> FALSE]
    /\ calls[1][3].call = "get_monitors"
    /\ calls[1][4] = [call |-> "get_monitor_beats", raised |-> FALSE]
    /\ calls[1][5] = [call |-> "get_monitor_beats", raised |-> TRUE]

\* C29: the step that disconnects leaves the operation's outcome as it was,
\* whether disconnect() returned or raised, and the service holds no session
\* once the operation has ended.
C29_DisconnectErrorSwallowed ==
    [][(pc[1] = "finally" /\ pc'[1] = "done") =>
          (outcome'[1] = outcome[1] /\ _api' = 0)]_vars

C29_Witness ==
    /\ route = "UptimeKumaService.add_monitor"
    /\ rpc = "done"
    /\ outcome[1] = "ok"
    /\ calls[1][Len(calls[1])] = [call |-> "disconnect", raised |-> TRUE]
    /\ result # <<>> /\ result[1].success
    /\ _api = 0

\* C27: once two add-monitors requests have both ended, a page holds every
\* monitor that a request answered with success added to it.
C27_NoUpdateLost ==
    (\A h \in Handlers : handlers[h].pc = "done") =>
        \A h \in Handlers :
            handlers[h].success =>
                Range(handlers[h].monitor_ids) \subseteq Range(psps[handlers[h].page_id])

\* C30: while the last pause or resume that succeeded is a pause, a listing
\* reports the monitor DOWN whatever its heartbeats are; once a resume has
\* succeeded a listing reports what the heartbeats and the status field of an
\* active monitor give; and no step changes a stored field other than
\* `active` and the heartbeats, which a pause or resume leaves alone.
C30_PausedIsDownUntilResumed ==
    [][/\ (view' # view /\ paused = "paused") => view'[1].status = FALSE
       /\ (view' # view /\ paused = "resumed") =>
              view'[1].status =
                  _determine_status_from_heartbeats([monitor EXCEPT !.active = 1], Beats)
       /\ \A key \in DOMAIN monitor \ {"active", "_heartbeats"} :
              monitor'[key] = monitor[key]
       /\ DOMAIN monitor' = DOMAIN monitor
       /\ monitor'.active # monitor.active => Beats' = Beats]_vars

C30_Witness ==
    /\ paused = "paused"
    /\ record[1] # <<>> /\ record[1][1].active = 1
    /\ Len(Beats) = 2
    /\ Beats[2].status = STATUS_UP
    /\ view # <<>>
    /\ view[1].active = 0
    /\ Len(view[1].logs) = 2
    /\ view[1].status = FALSE

====
